---- MODULE Spec2Model ----
(***************************************************************************)
(* Model of logfire's two runtime interceptors:                            *)
(*   - logfire/_async.py: log_slow_callbacks, which replaces               *)
(*     asyncio.events.Handle._run by a timing wrapper, and                 *)
(*   - logfire/integrations/_fastapi.py: instrument_fastapi, which         *)
(*     replaces fastapi.routing.solve_dependencies and                     *)
(*     fastapi.routing.run_endpoint_function.                              *)
(*                                                                         *)
(* Function values are modelled by identifiers: 0 is the host's own        *)
(* function, i > 0 is the closure installed by the i-th activation.  The   *)
(* closure's captured variables are the fields of the i-th record.         *)
(*                                                                         *)
(* Calls into collaborators that the source guards with try/except may     *)
(* raise an instance of Exception; the calls the source does not guard     *)
(* (the time source, the span, the sink's exception call) return normally. *)
(*                                                                         *)
(* _callback_attributes is modelled twice: by what the monitor sees of it  *)
(* (a descriptor, or an exception), and in full on callbacks whose         *)
(* attributes are plain values and whose __wrapped__ chains end.           *)
(***************************************************************************)
EXTENDS Integers, Sequences, FiniteSets, TLC

VARIABLES
    Handle_run,    \* asyncio.events.Handle._run: which function is installed
    monitors,      \* one record per call of log_slow_callbacks (its closure)
    lastExit,      \* the monitor whose handle exit was the last (de)activation, or 0
    run,           \* observation of the last callback run through Handle._run
    solve_dependencies,    \* fastapi.routing.solve_dependencies
    run_endpoint_function, \* fastapi.routing.run_endpoint_function
    activations,   \* one record per call of instrument_fastapi (its closure)
    inflight,      \* the request between its two pipeline stages
    stage1,        \* observation of the last dependency-resolution stage
    stage2,        \* observation of the last endpoint-invocation stage
    callback,      \* the callback of the handle the loop is about to describe
    attribution    \* observation of the last call of _callback_attributes

asyncVars == <<Handle_run, monitors, lastExit, run>>
fastapiVars == <<solve_dependencies, run_endpoint_function, activations,
                 inflight, stage1, stage2>>
attributionVars == <<callback, attribution>>
vars == <<Handle_run, monitors, lastExit, run, solve_dependencies,
          run_endpoint_function, activations, inflight, stage1, stage2,
          callback, attribution>>

(***************************************************************************)
(* Bounds.                                                                 *)
(***************************************************************************)
MaxMonitors == 2        \* calls of log_slow_callbacks
MaxActivations == 2     \* calls of instrument_fastapi
MaxWrappers == 2        \* wrappers around a plain callable

(***************************************************************************)
(* logfire/_async.py                                                       *)
(***************************************************************************)
ONE_SECOND_IN_NANOSECONDS == 1000000000

\* slow_duration arguments, in seconds, as fractions num/den.
SlowDurations == {[num |-> 1, den |-> 2], [num |-> 1, den |-> 1]}

\* slow_duration *= ONE_SECOND_IN_NANOSECONDS
ToNanoseconds(seconds) == (seconds.num * ONE_SECOND_IN_NANOSECONDS) \div seconds.den

\* A faulty variant of ToSeconds: floor division, which drops the fraction.
ToSecondsFloor(ns) == [whole |-> ns \div ONE_SECOND_IN_NANOSECONDS, nanos |-> 0]

\* duration /= ONE_SECOND_IN_NANOSECONDS: true division; the quotient is kept
\* exactly, as whole seconds and the remaining nanoseconds.
ToSeconds(ns) ==
    [whole |-> ns \div ONE_SECOND_IN_NANOSECONDS,
     nanos |-> ns % ONE_SECOND_IN_NANOSECONDS]

\* How long the host's own Handle._run may take, in nanoseconds: around every
\* threshold.
Durations ==
    {0} \cup UNION {{ToNanoseconds(s) - 1, ToNanoseconds(s), ToNanoseconds(s) + 1} \cap Nat
                    : s \in SlowDurations}

\* What the time source adds between a wrapper's second reading and its return.
Overheads == {0, 1}

\* First readings of the time source.
StartTimes == {0, 5}

\* The pending callback handles: what the host's own _run does with the
\* handle (returns a value or raises) and whether resolving the callback's
\* descriptor raises.
Handles ==
    [returns : {"None", "value"}, raises : {"none"}, broken : BOOLEAN]
    \cup [returns : {"None"}, raises : {"KeyboardInterrupt"}, broken : BOOLEAN]

\* The host's own Handle._run: the outcome and the time it takes.
HostRun(self, now, d) ==
    [raised |-> self.raises,
     return_value |-> IF self.raises = "none" THEN self.returns ELSE "None",
     now |-> now + d,
     calls |-> 1,
     attempts |-> 0,
     reports |-> << >>]

\* _callback_attributes as far as the monitor depends on it: the descriptor,
\* or the fact that resolving it raised.
CallbackAttributes(self) ==
    [raised |-> self.broken, name |-> "callback"]

\* A faulty variant of Warn: the failure of the report escapes the handler.
WarnUnguarded(m, self, duration, sinkRaises) ==
    IF CallbackAttributes(self).raised \/ sinkRaises
    THEN [raised |-> "Exception", reports |-> << >>]
    ELSE [raised |-> "none",
          reports |-> << [sink |-> m, level |-> "warn", tags |-> <<"slow-async">>,
                          duration |-> duration] >>]

\* Lines 36-47: the guarded report, given the duration in seconds.  Nothing
\* it raises leaves the handler.
Warn(m, self, duration, sinkRaises) ==
    IF CallbackAttributes(self).raised \/ sinkRaises
    THEN [raised |-> "none", reports |-> << >>]
    ELSE [raised |-> "none",
          reports |-> << [sink |-> m, level |-> "warn", tags |-> <<"slow-async">>,
                          duration |-> duration] >>]

\* A faulty variant of IsSlow: a strict comparison.
IsSlowStrict(duration, slow_duration) == duration > slow_duration

\* Line 35.
IsSlow(duration, slow_duration) == duration >= slow_duration

\* A faulty variant of ReturnValue: the wrapper forgets the original's value.
ReturnValueDropped(inner) == "None"

\* Lines 33 and 48: return_value = original_run(self) ... return return_value
ReturnValue(inner) == inner.return_value

\* Lines 30-48: patched_run of monitor m, given what its original_run did
\* (inner) and the reading of the time source before that call.
patched_run(m, self, start_time, inner, ov, sinkRaises) ==
    IF inner.raised # "none" THEN inner
    ELSE LET duration == inner.now - start_time
         IN  IF IsSlow(duration, monitors[m].slow_duration)
             THEN LET w == Warn(m, self, ToSeconds(duration), sinkRaises)
                  IN  [raised |-> w.raised,
                       return_value |-> IF w.raised = "none" THEN ReturnValue(inner)
                                        ELSE "None",
                       now |-> inner.now + ov,
                       calls |-> inner.calls,
                       attempts |-> inner.attempts + 1,
                       reports |-> inner.reports \o w.reports]
             ELSE [inner EXCEPT !.now = inner.now + ov,
                                !.return_value = ReturnValue(inner)]

\* Calling the function f on the handle self with the time source at now.
\* f = 0 is the host's function; f > 0 is patched_run of monitor f, which
\* calls its captured original_run.
RECURSIVE Call(_, _, _, _, _, _)
Call(f, self, now, d, ov, sinkRaises) ==
    IF f = 0 THEN HostRun(self, now, d)
    ELSE patched_run(f, self, now,
                     Call(monitors[f].original_run, self, now, d, ov, sinkRaises),
                     ov, sinkRaises)

\* The monitors whose patched_run a call of f goes through, outermost first.
RECURSIVE Chain(_)
Chain(f) == IF f = 0 THEN << >> ELSE <<f>> \o Chain(monitors[f].original_run)

NoRun ==
    [ran |-> FALSE, entry |-> 0,
     self |-> [returns |-> "None", raises |-> "none", broken |-> FALSE],
     start |-> 0, d |-> 0, ov |-> 0, sinkRaises |-> FALSE, raised |-> "none",
     return_value |-> "None", calls |-> 0, attempts |-> 0, reports |-> << >>]

\* A faulty variant of patch_context: the exit installs the host's function,
\* not what the activation captured.
patch_context_to_host(i, how) == 0

\* A faulty variant of patch_context: no finally, so an exception in the scope
\* skips the restore.
patch_context_no_finally(i, how) ==
    IF how = "exception" THEN Handle_run ELSE monitors[i].original_run

\* Lines 52-60: what Handle._run is after the handle of monitor i exits,
\* normally or by an exception raised in its scope.
patch_context(i, how) == monitors[i].original_run

\* log_slow_callbacks(logfire, slow_duration), lines 25-50.
Activate(slow_duration) ==
    /\ Len(monitors) < MaxMonitors
    /\ monitors' = Append(monitors,
                          [original_run |-> Handle_run,
                           slow_duration |-> ToNanoseconds(slow_duration),
                           handle |-> "open", exit_in_order |-> TRUE])
    /\ Handle_run' = Len(monitors) + 1
    /\ lastExit' = 0
    /\ run' = NoRun
    /\ UNCHANGED <<fastapiVars, attributionVars>>

\* Leaving the with-block of monitor i's handle, normally or by an exception.
\* The record keeps whether the exit came in order, that is when no monitor
\* activated later was still open.
ExitHandle(i, how) ==
    /\ monitors[i].handle = "open"
    /\ Handle_run' = patch_context(i, how)
    /\ monitors' = [monitors EXCEPT
                        ![i].handle = how,
                        ![i].exit_in_order =
                            \A j \in (i + 1)..Len(monitors) : monitors[j].handle # "open"]
    /\ lastExit' = i
    /\ run' = NoRun
    /\ UNCHANGED <<fastapiVars, attributionVars>>

\* The event loop runs one callback through Handle._run.
RunCallback(self, start, d, ov, sinkRaises) ==
    /\ ~run.ran
    /\ LET r == Call(Handle_run, self, start, d, ov, sinkRaises)
       IN  run' = [ran |-> TRUE, entry |-> Handle_run, self |-> self,
                   start |-> start, d |-> d, ov |-> ov,
                   sinkRaises |-> sinkRaises, raised |-> r.raised,
                   return_value |-> r.return_value, calls |-> r.calls,
                   attempts |-> r.attempts, reports |-> r.reports]
    /\ UNCHANGED <<Handle_run, monitors, lastExit>>
    /\ UNCHANGED <<fastapiVars, attributionVars>>

\* The event loop goes on to its next callback.
NextCallback ==
    /\ run.ran
    /\ run' = NoRun
    /\ UNCHANGED <<Handle_run, monitors, lastExit>>
    /\ UNCHANGED <<fastapiVars, attributionVars>>

(***************************************************************************)
(* logfire/_async.py: _callback_attributes                                 *)
(***************************************************************************)
\* Code objects: a coroutine function, and a code object for which the
\* source-location helper resolves no function name.
CoroutineCodes ==
    {[co_qualname |-> q, co_filename |-> "app.py", co_firstlineno |-> 10]
        : q \in {"Worker.run", ""}}

\* The code objects of plain callables, and the one of a wrapper function.
FunctionCodes ==
    {[co_qualname |-> q, co_filename |-> "handlers.py", co_firstlineno |-> 20]
        : q \in {"on_done", ""}}
WrapperCode ==
    [co_qualname |-> "deco.wrapper", co_filename |-> "deco.py", co_firstlineno |-> 30]
NoCode == [co_qualname |-> "", co_filename |-> "None", co_firstlineno |-> 0]

\* coro.cr_frame: None once the coroutine has finished, else the frame of
\* the coroutine's code with the line the coroutine is suspended at.
NoFrame == [f_code |-> NoCode, f_lineno |-> 0]
SuspendedFrames(code) == {[f_code |-> code, f_lineno |-> l] : l \in {11, 12}}

\* What task.get_coro() returns: a coroutine, or (type "generator") an
\* object that is not a CoroutineType.
Coroutines ==
    UNION {{[type |-> "CoroutineType", cr_frame |-> f, cr_code |-> c]
               : f \in SuspendedFrames(c) \cup {NoFrame}} : c \in CoroutineCodes}
    \cup
    {[type |-> "generator", cr_frame |-> NoFrame, cr_code |-> c] : c \in CoroutineCodes}

Tasks == {[name |-> n, coro |-> c] : n \in {"Task-1", "poller"}, c \in Coroutines}
NoTask ==
    [name |-> "", coro |-> [type |-> "None", cr_frame |-> NoFrame, cr_code |-> NoCode]]

\* A callable without __wrapped__: its __qualname__ and __name__ ("" where
\* the attribute is missing or empty), its __code__, and what repr() of it
\* does.
Callables ==
    {[qualname |-> q, name |-> n, code |-> c, repr |-> r]
        : q \in {"", "Handler.on_done"}, n \in {"", "on_done"},
          c \in FunctionCodes \cup {NoCode}, r \in {"<obj>", "raises"}}

\* A wrapper: a function that holds the callable it wraps in __wrapped__.
Wrapper ==
    [qualname |-> "deco.wrapper", name |-> "wrapper", code |-> WrapperCode,
     repr |-> "<function deco.wrapper>"]

\* n wrappers, one around the other.
Wrappers(n) == [i \in 1..n |-> Wrapper]

\* The callbacks a handle may hold.  A plain callable is the chain of objects
\* that __wrapped__ links, outermost first; a task callback is a bound
\* method whose __self__ is the task.
Callbacks ==
    {[kind |-> "task", task |-> t, chain |-> << >>] : t \in Tasks}
    \cup
    {[kind |-> "plain", task |-> NoTask, chain |-> Wrappers(n) \o <<c>>]
        : n \in 0..MaxWrappers, c \in Callables}

NoCallback == [kind |-> "none", task |-> NoTask, chain |-> << >>]

EmptyDict == [k \in {} |-> ""]

\* logfire._stack_info.get_code_object_info(code): the file and, where one is
\* resolved, the function of the code object.  Whether it also gives
\* code.lineno, which is then the first line of the code object (the comment
\* at lines 83-84), is the caller's with_line.
get_code_object_info(code, with_line) ==
    ("code.filepath" :> code.co_filename)
    @@ (IF code.co_qualname # "" THEN "code.function" :> code.co_qualname ELSE EmptyDict)
    @@ (IF with_line THEN "code.lineno" :> code.co_firstlineno ELSE EmptyDict)

\* logfire._stack_info.get_stack_info_from_frame(frame): the function and file
\* of the frame's code object and the line the frame is at.
get_stack_info_from_frame(frame, with_line) ==
    ("code.lineno" :> frame.f_lineno) @@ get_code_object_info(frame.f_code, with_line)

\* logfire._utils.safe_repr(obj): repr(obj), or a placeholder when repr
\* raises; it raises nothing itself.
safe_repr(obj) ==
    [raised |-> FALSE,
     value |-> IF obj.repr = "raises" THEN "<unknown (repr failed)>" ELSE obj.repr]

\* A faulty variant of TaskSourceInfo: the code object is used although the
\* coroutine has a frame.
TaskSourceInfoStatic(coro, with_line) == get_code_object_info(coro.cr_code, with_line)

\* Lines 79-85: the source location of a task's coroutine.
TaskSourceInfo(coro, with_line) ==
    IF coro.cr_frame # NoFrame
    THEN get_stack_info_from_frame(coro.cr_frame, with_line)
    ELSE get_code_object_info(coro.cr_code, with_line)

\* result.get('code.function', '').
CodeFunction(result) ==
    IF "code.function" \in DOMAIN result THEN result["code.function"] ELSE ""

\* A faulty variant of unwrap: one layer of wrapping is taken off.
unwrap_one_layer(chain) == IF Len(chain) > 1 THEN Tail(chain) ELSE chain

\* inspect.unwrap(callback), line 92: follows __wrapped__ to the object that
\* has none.
RECURSIVE unwrap(_)
unwrap(chain) == IF Len(chain) > 1 THEN unwrap(Tail(chain)) ELSE chain

\* A faulty variant of ResolveName: __name__ is asked before __qualname__.
ResolveNameFirst(obj, result) ==
    LET name == IF obj.name # "" THEN obj.name
                ELSE IF obj.qualname # "" THEN obj.qualname
                ELSE CodeFunction(result)
    IN  IF name # "" THEN [raised |-> FALSE, value |-> name] ELSE safe_repr(obj)

\* Lines 97-100: the first non-empty of __qualname__, __name__ and the
\* function of the code object, else safe_repr.
ResolveName(obj, result) ==
    LET name == IF obj.qualname # "" THEN obj.qualname
                ELSE IF obj.name # "" THEN obj.name
                ELSE CodeFunction(result)
    IN  IF name # "" THEN [raised |-> FALSE, value |-> name] ELSE safe_repr(obj)

\* _callback_attributes(callback), lines 69-102: whether it raises, and the
\* dict it returns.
callback_attributes(cb, with_line) ==
    IF cb.kind = "task"
    THEN LET coro == cb.task.coro
             result == "name" :> ("task " \o cb.task.name)
         IN  IF coro.type # "CoroutineType" THEN [raised |-> FALSE, result |-> result]
             ELSE LET located == TaskSourceInfo(coro, with_line) @@ result
                      function_name == CodeFunction(located)
                  IN  [raised |-> FALSE,
                       result |-> IF function_name # ""
                                  THEN [located EXCEPT
                                           !["name"] = @ \o " (" \o function_name \o ")"]
                                  ELSE located]
    ELSE LET obj == Head(unwrap(cb.chain))
             result == IF obj.code # NoCode
                       THEN get_code_object_info(obj.code, with_line)
                       ELSE EmptyDict
             name == ResolveName(obj, result)
         IN  IF name.raised THEN [raised |-> TRUE, result |-> EmptyDict]
             ELSE [raised |-> FALSE,
                   result |-> ("name" :> ("callback " \o name.value)) @@ result]

NotResolved ==
    [done |-> FALSE, with_line |-> FALSE, raised |-> FALSE, result |-> EmptyDict]

\* patched_run asks for the descriptor of the callback of a slow handle
\* (line 41).
Resolve(with_line) ==
    /\ callback # NoCallback
    /\ ~attribution.done
    /\ LET r == callback_attributes(callback, with_line)
       IN  attribution' = [done |-> TRUE, with_line |-> with_line,
                           raised |-> r.raised, result |-> r.result]
    /\ UNCHANGED <<callback, asyncVars, fastapiVars>>

\* The loop comes to the next slow handle.
NextHandle(cb) ==
    /\ attribution.done
    /\ callback' = cb
    /\ attribution' = NotResolved
    /\ UNCHANGED <<asyncVars, fastapiVars>>

(***************************************************************************)
(* logfire/integrations/_fastapi.py                                        *)
(***************************************************************************)
Apps == {"A", "B"}

\* scope['route'] of a request: an APIRoute, an APIWebSocketRoute or nothing.
ItemRoute ==
    [cls |-> "APIRoute", path |-> "/items/{id}", name |-> "read_item",
     operation_id |-> "read_item_op"]
HealthRoute ==
    [cls |-> "APIRoute", path |-> "/health", name |-> "health",
     operation_id |-> "health_op"]
SocketRoute ==
    [cls |-> "APIWebSocketRoute", path |-> "/ws", name |-> "ws", operation_id |-> "none"]
NoRoute == [cls |-> "None", path |-> "none", name |-> "none", operation_id |-> "none"]

\* The requests: an HTTP request to each app, a socket connection, a request
\* to an excluded URL, one without a matched route, and one whose scope
\* get_host_port_url_tuple cannot read.
Requests ==
    {[app |-> a, cls |-> "Request", method |-> "GET", url |-> "http://host/items/1",
      route |-> ItemRoute, scope_ok |-> TRUE] : a \in Apps}
    \cup
    {[app |-> "A", cls |-> "WebSocket", method |-> "none", url |-> "http://host/ws",
      route |-> SocketRoute, scope_ok |-> TRUE],
     [app |-> "A", cls |-> "Request", method |-> "POST", url |-> "http://host/health",
      route |-> HealthRoute, scope_ok |-> TRUE],
     [app |-> "A", cls |-> "Request", method |-> "GET", url |-> "http://host/items/1",
      route |-> NoRoute, scope_ok |-> TRUE],
     [app |-> "A", cls |-> "Request", method |-> "GET", url |-> "http://host/items/1",
      route |-> ItemRoute, scope_ok |-> FALSE]}

NoRequest ==
    [app |-> "none", cls |-> "None", method |-> "none", url |-> "none",
     route |-> NoRoute, scope_ok |-> TRUE]

\* excluded_urls_list, lines 52-55: the URLs url_disabled answers True for.
excluded_urls_list == {"http://host/health"}

\* Resolved values are mappings from parameter names to typed values.
UserValue == [type |-> "int", v |-> "1"]
RequestValue == [type |-> "Request", v |-> "request"]
ExtraValue == [type |-> "str", v |-> "extra"]
EmptyItems == [k \in {} |-> UserValue]

\* What the host's solve_dependencies may return as result[0] and result[1].
ValueItems == {"id" :> UserValue, ("id" :> UserValue) @@ ("request" :> RequestValue)}
ErrorLists == {<< >>, <<"missing">>}

PlainValues(items) == [cls |-> "dict", request |-> NoRequest, items |-> items]

\* The outcomes of the host's solve_dependencies: it raises, it returns a
\* tuple of values and errors, or it returns something of another shape.
SolvedResults ==
    {[raised |-> "none", shape |-> "tuple", values |-> PlainValues(i), errors |-> e]
        : i \in ValueItems, e \in ErrorLists}
    \cup
    {[raised |-> "none", shape |-> "other", values |-> PlainValues(EmptyItems),
      errors |-> << >>],
     [raised |-> "HTTPException", shape |-> "tuple", values |-> PlainValues(EmptyItems),
      errors |-> << >>]}

\* Python values a mapper may return.
PyDict(items) == [type |-> "dict", truthy |-> DOMAIN items # {}, items |-> items]
PyNone == [type |-> "NoneType", truthy |-> FALSE, items |-> EmptyItems]
PyFalse == [type |-> "bool", truthy |-> FALSE, items |-> EmptyItems]
PyList == [type |-> "list", truthy |-> TRUE, items |-> EmptyItems]
PyMappingProxy(items) == [type |-> "mappingproxy", truthy |-> DOMAIN items # {}, items |-> items]

\* A faulty variant of Truthy: only None opts out.
TruthyUnlessNone(x) == x.type # "NoneType"

\* Line 93: bool(attributes).
Truthy(x) == IF x.type = "dict" THEN DOMAIN x.items # {} ELSE x.truthy

\* What the user's request_attributes_mapper does with the bundle on this
\* request (every activation the request passes through is given a mapper
\* that behaves the same way on it): the default; a falsy value; a bundle changed in place; an
\* exception; a list, which has no get; a read-only mapping, which has get
\* but takes no new keys.
MapperKinds ==
    {"default", "None", "False", "empty", "drop_errors", "add", "remove", "raise",
     "list", "mappingproxy"}

Without(f, k) == [x \in DOMAIN f \ {k} |-> f[x]]

\* request_attributes_mapper(request, attributes): whether it raises, what
\* it returns, and what the two objects it was handed hold afterwards.
\* The default, lines 161-165, returns the bundle.
Mapper(kind, attributes) ==
    LET values == attributes["values"]
        errors == attributes["errors"]
        same == [raised |-> FALSE, value |-> PyDict(attributes),
                 values |-> values, errors |-> errors]
    IN  CASE kind = "default" -> same
          [] kind = "None" -> [same EXCEPT !.value = PyNone]
          [] kind = "False" -> [same EXCEPT !.value = PyFalse]
          [] kind = "empty" -> [same EXCEPT !.value = PyDict(EmptyItems)]
          [] kind = "list" -> [same EXCEPT !.value = PyList]
          [] kind = "mappingproxy" -> [same EXCEPT !.value = PyMappingProxy(attributes)]
          [] kind = "raise" -> [same EXCEPT !.raised = TRUE, !.value = PyNone]
          [] kind = "drop_errors" ->
                [same EXCEPT !.value = PyDict(Without(attributes, "errors"))]
          [] kind = "add" ->
                LET v == values @@ ("extra" :> ExtraValue)
                    e == Append(errors, "mapper")
                IN  [raised |-> FALSE,
                     value |-> PyDict(("http.method" :> "MAPPER") @@ ("values" :> v)
                                      @@ ("errors" :> e)),
                     values |-> v, errors |-> e]
          [] kind = "remove" ->
                [raised |-> FALSE,
                 value |-> PyDict(("values" :> EmptyItems) @@ ("errors" :> << >>)),
                 values |-> EmptyItems, errors |-> << >>]

InternalTypes == {"Request", "WebSocket", "BackgroundTasks", "SecurityScopes", "Response"}

\* Lines 78-82: the values without the framework's own objects.
LoggableValues(items) ==
    [k \in {x \in DOMAIN items : items[x].type \notin InternalTypes} |-> items[k]]

\* A faulty variant of AttributeBundle: the bundle is built with the HTTP
\* method in it.
AttributeBundleWithMethod(result) ==
    ("http.method" :> "GET") @@ ("values" :> LoggableValues(result.values.items))
    @@ ("errors" :> result.errors)

\* Lines 74-84: the bundle handed to the mapper.
AttributeBundle(result) ==
    ("values" :> LoggableValues(result.values.items)) @@ ("errors" :> result.errors)

\* A faulty variant of ResultAfterMapper: the bundle holds the resolver's own
\* objects, so what the mapper does to them shows in the result.
ResultAfterMapperShared(result, m) ==
    [result EXCEPT !.values.items = m.values, !.errors = m.errors]

\* Lines 80 and 83: the bundle holds copies of result[0] and result[1], so
\* the result is what it was whatever the mapper did to the bundle.
ResultAfterMapper(result, m) == result

\* A faulty variant of Instrumented: the values of a socket connection are
\* wrapped as well.
InstrumentedAnyRequest(result, request) ==
    [result EXCEPT !.values = [cls |-> "_InstrumentedValues", request |-> request,
                               items |-> result.values.items]]

\* Lines 87-90: the values as an _InstrumentedValues carrying the request.
Instrumented(result, request) ==
    IF request.cls = "Request"
    THEN [result EXCEPT !.values = [cls |-> "_InstrumentedValues", request |-> request,
                                    items |-> result.values.items]]
    ELSE result

\* A faulty variant of instrumenting_request: the request's app is not
\* compared with the activation's.
instrumenting_request_any_app(k, request) ==
    /\ activations[k].instrumenting
    /\ request.url \notin excluded_urls_list

\* A faulty variant of instrumenting_request: the flag is not read.
instrumenting_request_no_flag(k, request) ==
    /\ request.app = activations[k].app
    /\ request.url \notin excluded_urls_list

\* Lines 64-66, once the URL has been read from the scope.
instrumenting_request(k, request) ==
    /\ activations[k].instrumenting
    /\ request.app = activations[k].app
    /\ request.url \notin excluded_urls_list

\* A faulty variant of Level: the resolver's errors decide, not the bundle's.
LevelOfResult(attributes, result) == IF result.errors # << >> THEN "error" ELSE "debug"

\* Line 99.
Level(attributes, result) ==
    IF "errors" \in DOMAIN attributes /\ attributes["errors"] # << >>
    THEN "error" ELSE "debug"

\* Lines 105-116 assign to the bundle for an HTTP request (line 106) and for
\* a matched route (line 109).
Injects(request) == request.cls = "Request" \/ request.route.cls # "None"

\* Lines 105-116: the attributes added after the mapper has returned.
Injected(attributes, request) ==
    LET route == request.route
        a1 == IF request.cls = "Request"
              THEN ("http.method" :> request.method) @@ attributes
              ELSE attributes
        a2 == IF route.cls # "None"
              THEN ("http.route" :> route.path) @@ ("fastapi.route.name" :> route.name) @@ a1
              ELSE a1
    IN  IF route.cls = "APIRoute"
        THEN ("fastapi.route.operation_id" :> route.operation_id) @@ a2
        ELSE a2

LogReport(k, level, attributes) ==
    [sink |-> k, call |-> "log", level |-> level, msg |-> "FastAPI arguments",
     attributes |-> attributes]

\* Line 120.
ExceptionReport(k) ==
    [sink |-> k, call |-> "exception", level |-> "error",
     msg |-> "Error logging FastAPI arguments", attributes |-> EmptyItems]

\* What one patched_solve_dependencies adds to what its original did.
Layer(inner, k, outcome, result, reports, steps) ==
    [raised |-> "none", result |-> result, calls |-> inner.calls,
     reports |-> inner.reports \o reports,
     steps |-> inner.steps \o steps,
     layers |-> Append(inner.layers,
                       [layer |-> k, instrumenting |-> activations[k].instrumenting,
                        outcome |-> outcome, given |-> inner.result,
                        returned |-> result])]

\* A faulty variant of Failed: the handler is missing, the exception leaves.
FailedUnguarded(inner, k, outcome, result, steps) ==
    [Layer(inner, k, outcome, result, << >>, steps) EXCEPT !.raised = "Exception"]

\* Lines 119-122: an exception of the reporting path is caught and reported.
Failed(inner, k, outcome, result, steps) ==
    Layer(inner, k, outcome, result, <<ExceptionReport(k)>>,
          steps \o <<[step |-> "exception", layer |-> k, keys |-> {}]>>)

\* Lines 68-122: patched_solve_dependencies of activation k, given what its
\* original_solve_dependencies did (inner).
patched_solve_dependencies(k, inner, request, mapper, logRaises) ==
    LET result == inner.result
        bundle == AttributeBundle(result)
        \* a step of this layer; keys are those of the bundle the step handed
        \* to the user's mapper
        S(name) == [step |-> name, layer |-> k,
                    keys |-> IF name = "mapper" THEN DOMAIN bundle ELSE {}]
        wrapped == Instrumented(result, request)
        m == Mapper(mapper, bundle)
        after == ResultAfterMapper(wrapped, m)
        attributes == Injected(m.value.items, request)
    IN  IF inner.raised # "none" THEN inner
        ELSE IF ~request.scope_ok
        THEN Failed(inner, k, "check_failed", result, <<S("check")>>)
        ELSE IF ~instrumenting_request(k, request)
        THEN Layer(inner, k, "not_instrumenting", result, << >>, <<S("check")>>)
        ELSE IF result.shape # "tuple"
        THEN Failed(inner, k, "build_failed", result, <<S("check"), S("build")>>)
        ELSE IF m.raised
        THEN Failed(inner, k, "mapper_failed", after,
                    <<S("check"), S("build"), S("mapper")>>)
        ELSE IF ~Truthy(m.value)
        THEN Layer(inner, k, "opted_out", after, << >>,
                   <<S("check"), S("build"), S("mapper")>>)
        ELSE IF m.value.type \notin {"dict", "mappingproxy"}
        THEN Failed(inner, k, "level_failed", after,
                    <<S("check"), S("build"), S("mapper"), S("level")>>)
        ELSE IF m.value.type # "dict" /\ Injects(request)
        THEN Failed(inner, k, "inject_failed", after,
                    <<S("check"), S("build"), S("mapper"), S("level"), S("inject")>>)
        ELSE IF logRaises
        THEN Failed(inner, k, "log_failed", after,
                    <<S("check"), S("build"), S("mapper"), S("level"), S("inject"),
                      S("log")>>)
        ELSE Layer(inner, k, "reported", after,
                   <<LogReport(k, Level(m.value.items, result), attributes)>>,
                   <<S("check"), S("build"), S("mapper"), S("level"), S("inject"),
                     S("log")>>)

\* The host's own solve_dependencies.
HostSolve(solved) ==
    [raised |-> solved.raised, result |-> solved, calls |-> 1, reports |-> << >>,
     steps |-> <<[step |-> "original", layer |-> 0, keys |-> {}]>>, layers |-> << >>]

\* Calling the function f = fastapi.routing.solve_dependencies.
RECURSIVE Solve(_, _, _, _, _)
Solve(f, request, solved, mapper, logRaises) ==
    IF f = 0 THEN HostSolve(solved)
    ELSE patched_solve_dependencies(
             f, Solve(activations[f].original_solve_dependencies, request, solved,
                      mapper, logRaises),
             request, mapper, logRaises)

\* The host's own run_endpoint_function: the endpoint returns or raises.
EndpointOutcomes ==
    {[raised |-> "none", value |-> "response"], [raised |-> "ValueError", value |-> "None"]}

HostInvoke(outcome) ==
    [raised |-> outcome.raised, value |-> outcome.value, calls |-> 1,
     events |-> <<[event |-> "endpoint", layer |-> 0, name |-> "endpoint"]>>]

\* A faulty variant of SpanExit: the span swallows the exception.
SpanExitSuppress(inner) == [inner EXCEPT !.raised = "none", !.value = "None"]

\* Line 140: leaving the with-block hands on what the call inside did.
SpanExit(inner) == inner

\* A faulty variant of OpensSpan: any instrumented values open a span.
OpensSpanAnyApp(k, values) == values.cls = "_InstrumentedValues"

\* Line 132.
OpensSpan(k, values) ==
    values.cls = "_InstrumentedValues" /\ values.request.app = activations[k].app

\* Lines 133-137: the span's name, from the template and its two fields.
SpanName(request) == <<request.method, request.route.path, "endpoint function">>

\* Lines 131-141: patched_run_endpoint_function of activation k around the
\* call of its original_run_endpoint_function.
RECURSIVE Invoke(_, _, _)
Invoke(f, values, outcome) ==
    IF f = 0 THEN HostInvoke(outcome)
    ELSE LET inner == Invoke(activations[f].original_run_endpoint_function, values,
                             outcome)
         IN  IF OpensSpan(f, values)
             THEN LET out == SpanExit(inner)
                      name == SpanName(values.request)
                  IN  [out EXCEPT !.events =
                          <<[event |-> "open", layer |-> f, name |-> name]>>
                          \o inner.events
                          \o <<[event |-> "close", layer |-> f, name |-> name]>>]
             ELSE inner

NoStage1 ==
    [done |-> FALSE, entry |-> 0, request |-> NoRequest,
     solved |-> [raised |-> "none", shape |-> "tuple",
                 values |-> PlainValues(EmptyItems), errors |-> << >>],
     mapper |-> "default", logRaises |-> FALSE, raised |-> "none",
     result |-> [raised |-> "none", shape |-> "tuple",
                 values |-> PlainValues(EmptyItems), errors |-> << >>],
     calls |-> 0, reports |-> << >>, steps |-> << >>, layers |-> << >>]

NoStage2 ==
    [done |-> FALSE, entry |-> 0, values |-> PlainValues(EmptyItems),
     outcome |-> [raised |-> "none", value |-> "None"],
     raised |-> "none", value |-> "None", calls |-> 0, events |-> << >>]

\* No request is between its stages.  Of a request that is, the model keeps
\* what stage two is handed (the values) and what stage one saw: the request,
\* the shape of the resolver's result, the flag of every activation, and
\* whether a mapper opted the request out of the log report.
NoInflight ==
    [phase |-> "idle", request |-> NoRequest, values |-> PlainValues(EmptyItems),
     shape |-> "tuple", flags |-> << >>, opted_out |-> FALSE]

\* The wrappers around the host's solve_dependencies, outermost first, when
\* f is installed: each patched function calls the original it captured.
RECURSIVE SolveChain(_)
SolveChain(f) ==
    IF f = 0 THEN << >>
    ELSE <<f>> \o SolveChain(activations[f].original_solve_dependencies)

\* The same for run_endpoint_function.
RECURSIVE RunChain(_)
RunChain(f) ==
    IF f = 0 THEN << >>
    ELSE <<f>> \o RunChain(activations[f].original_run_endpoint_function)

\* A faulty variant of Patch: the stage is patched by the first activation
\* only, a later activation leaves what is installed.
PatchOnce(current) == IF current = 0 THEN Len(activations) + 1 ELSE current

\* Lines 129 and 144: what an activation assigns to the stage's name in
\* fastapi.routing when current is installed there: its own new closure,
\* whatever current is.
Patch(current) == Len(activations) + 1

\* instrument_fastapi(logfire_instance, app), lines 41-144.
Instrument(app) ==
    /\ Len(activations) < MaxActivations
    /\ activations' = Append(activations,
                             [app |-> app, instrumenting |-> TRUE,
                              original_solve_dependencies |-> solve_dependencies,
                              original_run_endpoint_function |-> run_endpoint_function])
    /\ solve_dependencies' = Patch(solve_dependencies)
    /\ run_endpoint_function' = Patch(run_endpoint_function)
    /\ stage1' = NoStage1
    /\ stage2' = NoStage2
    /\ UNCHANGED inflight
    /\ UNCHANGED <<asyncVars, attributionVars>>

\* Leaving the with-block of activation k's handle, lines 146-156.
Uninstrument(k) ==
    /\ activations[k].instrumenting
    /\ activations' = [activations EXCEPT ![k].instrumenting = FALSE]
    /\ stage1' = NoStage1
    /\ stage2' = NoStage2
    /\ UNCHANGED <<solve_dependencies, run_endpoint_function, inflight>>
    /\ UNCHANGED <<asyncVars, attributionVars>>

\* The framework resolves the dependencies of a request through
\* fastapi.routing.solve_dependencies.
SolveDependencies(request, solved, mapper, logRaises) ==
    /\ inflight.phase = "idle"
    /\ LET r == Solve(solve_dependencies, request, solved, mapper, logRaises)
       IN  /\ stage1' = [done |-> TRUE, entry |-> solve_dependencies,
                         request |-> request, solved |-> solved, mapper |-> mapper,
                         logRaises |-> logRaises, raised |-> r.raised,
                         result |-> r.result, calls |-> r.calls, reports |-> r.reports,
                         steps |-> r.steps, layers |-> r.layers]
           /\ inflight' = [phase |-> IF r.raised = "none" THEN "resolved" ELSE "failed",
                           request |-> request, values |-> r.result.values,
                           shape |-> r.result.shape,
                           flags |-> [k \in 1..Len(activations) |->
                                         activations[k].instrumenting],
                           opted_out |-> \E i \in 1..Len(r.layers) :
                                            r.layers[i].outcome = "opted_out"]
    /\ stage2' = NoStage2
    /\ UNCHANGED <<solve_dependencies, run_endpoint_function, activations>>
    /\ UNCHANGED <<asyncVars, attributionVars>>

\* The framework calls the endpoint of a request whose dependencies were
\* resolved, through fastapi.routing.run_endpoint_function.
RunEndpointFunction(outcome) ==
    /\ inflight.phase = "resolved"
    /\ inflight.request.route.cls # "None"
    /\ LET r == Invoke(run_endpoint_function, inflight.values, outcome)
       IN  stage2' = [done |-> TRUE, entry |-> run_endpoint_function,
                      values |-> inflight.values, outcome |-> outcome,
                      raised |-> r.raised, value |-> r.value, calls |-> r.calls,
                      events |-> r.events]
    /\ inflight' = [inflight EXCEPT !.phase = "invoked"]
    /\ stage1' = NoStage1
    /\ UNCHANGED <<solve_dependencies, run_endpoint_function, activations>>
    /\ UNCHANGED <<asyncVars, attributionVars>>

\* The request is answered; the framework takes the next one.
Respond ==
    /\ inflight.phase # "idle"
    /\ inflight' = NoInflight
    /\ stage1' = NoStage1
    /\ stage2' = NoStage2
    /\ UNCHANGED <<solve_dependencies, run_endpoint_function, activations>>
    /\ UNCHANGED <<asyncVars, attributionVars>>

InitAsync ==
    /\ Handle_run = 0
    /\ monitors = << >>
    /\ lastExit = 0
    /\ run = NoRun

InitFastAPI ==
    /\ solve_dependencies = 0
    /\ run_endpoint_function = 0
    /\ activations = << >>
    /\ inflight = NoInflight
    /\ stage1 = NoStage1
    /\ stage2 = NoStage2

Init ==
    /\ InitAsync
    /\ InitFastAPI
    /\ callback = NoCallback
    /\ attribution = NotResolved

NextAsync ==
    \/ \E s \in SlowDurations : Activate(s)
    \/ \E i \in 1..Len(monitors), how \in {"normal", "exception"} : ExitHandle(i, how)
    \/ \E self \in Handles, start \in StartTimes, d \in Durations, ov \in Overheads,
          sinkRaises \in BOOLEAN :
          RunCallback(self, start, d, ov, sinkRaises)
    \/ NextCallback

SpecAsync == Init /\ [][NextAsync]_vars

NextFastAPI ==
    \/ \E app \in Apps : Instrument(app)
    \/ \E k \in 1..Len(activations) : Uninstrument(k)
    \/ \E request \in Requests, solved \in SolvedResults, mapper \in MapperKinds,
          logRaises \in BOOLEAN :
          SolveDependencies(request, solved, mapper, logRaises)
    \/ \E outcome \in EndpointOutcomes : RunEndpointFunction(outcome)
    \/ Respond

SpecFastAPI == Init /\ [][NextFastAPI]_vars

\* The calls of _callback_attributes: any callback, one after another.
InitAttribution ==
    /\ InitAsync
    /\ InitFastAPI
    /\ callback \in Callbacks
    /\ attribution = NotResolved

NextAttribution ==
    \/ \E with_line \in BOOLEAN : Resolve(with_line)
    \/ \E cb \in Callbacks : NextHandle(cb)

SpecAttribution == InitAttribution /\ [][NextAttribution]_vars

(***************************************************************************)
(* Properties of the callback latency monitor (SpecAsync).                 *)
(***************************************************************************)
\* The last run went through exactly one monitor's patched_run.
OneMonitor == run.ran /\ run.entry # 0 /\ monitors[run.entry].original_run = 0

\* The report a slow run of d nanoseconds must produce: warn level, the
\* slow-async tag, and a duration in seconds that is d nanoseconds.
SlowReport(r, d) ==
    /\ r.level = "warn"
    /\ r.tags = <<"slow-async">>
    /\ r.duration.whole * ONE_SECOND_IN_NANOSECONDS + r.duration.nanos = d
    /\ r.duration.nanos \in 0..(ONE_SECOND_IN_NANOSECONDS - 1)

\* C1 as stated: with one active monitor of threshold T, a run whose
\* original call took d nanoseconds sends no report if d < T*10^9 and
\* exactly one warn-level slow-async report of d/10^9 seconds if d >= T*10^9.
C1_AsStated ==
    (OneMonitor /\ run.raised = "none") =>
        LET T == monitors[run.entry].slow_duration
        IN  /\ run.d < T => run.reports = << >>
            /\ run.d >= T => /\ Len(run.reports) = 1
                             /\ SlowReport(run.reports[1], run.d)

\* C1 amended: as C1, but the one report of a run with d >= T*10^9 is sent
\* provided neither resolving the callback's descriptor nor the sink's warn
\* call raises.
C1_SlowCallbackReported ==
    (OneMonitor /\ run.raised = "none") =>
        LET T == monitors[run.entry].slow_duration
        IN  /\ run.d < T => run.reports = << >>
            /\ (run.d >= T /\ ~run.self.broken /\ ~run.sinkRaises) =>
                   /\ Len(run.reports) = 1
                   /\ SlowReport(run.reports[1], run.d)

C1_Witness ==
    /\ OneMonitor
    /\ run.start # 0
    /\ run.d = monitors[run.entry].slow_duration + 1
    /\ Len(run.reports) = 1

\* C2: a call of the patched entry point calls the host's original exactly
\* once, returns what it returned and raises what it raised.
C2_OutcomeIsOriginals ==
    (run.ran /\ run.entry # 0) =>
        /\ run.calls = 1
        /\ run.raised = run.self.raises
        /\ run.self.raises = "none" => run.return_value = run.self.returns

C2_Witness ==
    /\ run.ran
    /\ run.entry # 0
    /\ run.return_value = "value"
    /\ run.reports # << >>

\* C3: when the original returns normally and resolving the descriptor or
\* the sink's call raises during a report, the patched entry point returns
\* normally with the original's value and nothing is reported.
C3_ReportFailureSwallowed ==
    (/\ run.ran
     /\ run.self.raises = "none"
     /\ run.attempts > 0
     /\ (run.self.broken \/ run.sinkRaises)) =>
        /\ run.raised = "none"
        /\ run.return_value = run.self.returns
        /\ run.reports = << >>

C3_Witness ==
    /\ run.ran
    /\ run.attempts > 0
    /\ run.self.broken
    /\ ~run.sinkRaises
    /\ run.return_value = "value"

ReportsOf(k) == {i \in 1..Len(stage1.reports) : stage1.reports[i].sink = k}

\* The indices of the 'FastAPI arguments' log reports.
LogReports == {i \in 1..Len(stage1.reports) : stage1.reports[i].call = "log"}

\* Activation L.layer called the mapper.
MapperCalled(L) ==
    \E i \in 1..Len(stage1.steps) :
        stage1.steps[i].step = "mapper" /\ stage1.steps[i].layer = L.layer

\* Flag, app and URL, as they were when layer L handled the request.
FlagAppUrl(L) ==
    /\ L.instrumenting
    /\ stage1.request.app = activations[L.layer].app
    /\ stage1.request.url \notin excluded_urls_list

\* Layer L handed back the values and errors it was given.
SameValuesAndErrors(L) ==
    /\ L.returned.values.items = L.given.values.items
    /\ L.returned.errors = L.given.errors

\* The mappers that return a non-empty mapping.
BundleMappers == {"default", "drop_errors", "add", "remove"}

\* Something in the reporting path of layer L raises.
ReportingRaises(L) ==
    \/ ~stage1.request.scope_ok
    \/ /\ FlagAppUrl(L)
       /\ \/ L.given.shape # "tuple"
          \/ stage1.mapper \in {"raise", "list"}
          \/ /\ stage1.mapper = "mappingproxy"
             /\ (stage1.request.cls = "Request" \/ stage1.request.route.cls # "None"
                 \/ stage1.logRaises)
          \/ stage1.mapper \in BundleMappers /\ stage1.logRaises

\* C5 as stated: when the flag is false, or the request's app is not the
\* instrumented app, or the URL is excluded, the stage returns exactly what
\* the original resolver returned, the mapper is not called and the sink
\* receives no report.
C5_AsStated ==
    \A j \in 1..Len(stage1.layers) :
        LET L == stage1.layers[j]
        IN  ~FlagAppUrl(L) =>
                /\ L.returned = L.given
                /\ ~MapperCalled(L)
                /\ ReportsOf(L.layer) = {}

\* C6: when the mapper returns None, False or an empty mapping for an
\* instrumented request, the activation's sink receives no report and the
\* stage returns the values and errors the original resolver produced.
C6_FalsyMapperOptsOut ==
    \A j \in 1..Len(stage1.layers) :
        LET L == stage1.layers[j]
        IN  (/\ FlagAppUrl(L)
             /\ ~ReportingRaises(L)
             /\ stage1.mapper \in {"None", "False", "empty"}) =>
                /\ ReportsOf(L.layer) = {}
                /\ SameValuesAndErrors(L)
                /\ stage1.raised = "none"
                /\ stage1.result.values.items = stage1.solved.values.items
                /\ stage1.result.errors = stage1.solved.errors

C6_Witness ==
    /\ stage1.done
    /\ stage1.mapper = "empty"
    /\ stage1.solved.errors # << >>
    /\ \E j \in 1..Len(stage1.layers) :
          /\ FlagAppUrl(stage1.layers[j])
          /\ stage1.layers[j].returned.values.cls = "_InstrumentedValues"

\* C7: with a single active activation, an instrumented HTTP request with
\* a matched route whose mapper returns a non-empty bundle and whose
\* reporting raises nothing gets exactly one 'FastAPI arguments' log
\* report; its level is error if the mapper's bundle has truthy errors and
\* debug otherwise; its attributes hold the method, the route path and the
\* route name.
C7_OneLogReport ==
    \A j \in 1..Len(stage1.layers) :
        LET L == stage1.layers[j]
            bundle == Mapper(stage1.mapper, AttributeBundle(L.given)).value.items
        IN  (/\ Cardinality({i \in 1..Len(stage1.layers) :
                                stage1.layers[i].instrumenting}) = 1
             /\ FlagAppUrl(L)
             /\ ~ReportingRaises(L)
             /\ stage1.request.cls = "Request"
             /\ stage1.request.route.cls # "None"
             /\ stage1.mapper \in BundleMappers) =>
                /\ Cardinality(LogReports) = 1
                /\ Len(stage1.reports) = 1
                /\ LET r == stage1.reports[1]
                   IN  /\ r.sink = L.layer
                       /\ r.msg = "FastAPI arguments"
                       /\ r.level = IF "errors" \in DOMAIN bundle
                                       /\ Len(bundle["errors"]) > 0
                                    THEN "error" ELSE "debug"
                       /\ {"http.method", "http.route", "fastapi.route.name"}
                              \subseteq DOMAIN r.attributes
                       /\ r.attributes["http.method"] = stage1.request.method
                       /\ r.attributes["http.route"] = stage1.request.route.path
                       /\ r.attributes["fastapi.route.name"] = stage1.request.route.name

C7_Witness ==
    /\ stage1.done
    /\ stage1.mapper = "default"
    /\ stage1.solved.errors # << >>
    /\ Len(stage1.reports) = 1
    /\ stage1.reports[1].call = "log"
    /\ stage1.reports[1].level = "error"
    /\ stage1.request.route = ItemRoute
    /\ stage1.reports[1].attributes["errors"] # << >>
    /\ stage1.reports[1].attributes["http.method"] = "GET"
    /\ stage1.reports[1].attributes["http.route"] = "/items/{id}"

\* C8: an exception raised in the reporting path of the stage (the check,
\* building the bundle, the mapper, the injection, the sink's log call) is
\* reported once through the sink's exception call as 'Error logging
\* FastAPI arguments', does not leave the stage, and the stage returns the
\* resolved values and errors.
C8_ReportingFailureReported ==
    \A j \in 1..Len(stage1.layers) :
        LET L == stage1.layers[j]
        IN  ReportingRaises(L) =>
                /\ stage1.raised = "none"
                /\ Cardinality(ReportsOf(L.layer)) = 1
                /\ \A i \in ReportsOf(L.layer) :
                      /\ stage1.reports[i].call = "exception"
                      /\ stage1.reports[i].msg = "Error logging FastAPI arguments"
                /\ SameValuesAndErrors(L)
                /\ stage1.result.values.items = stage1.solved.values.items
                /\ stage1.result.errors = stage1.solved.errors

C8_Witness ==
    /\ stage1.done
    /\ stage1.logRaises
    /\ stage1.mapper = "add"
    /\ stage1.solved.errors # << >>
    /\ \E j \in 1..Len(stage1.layers) :
          /\ FlagAppUrl(stage1.layers[j])
          /\ ReportingRaises(stage1.layers[j])
          /\ stage1.layers[j].returned.values.cls = "_InstrumentedValues"

\* C9: the stage calls the original resolver exactly once and before any
\* instrumentation step; an exception of the original resolver leaves the
\* stage unchanged and nothing is reported; otherwise the values returned
\* have exactly the keys and values the original resolver returned and the
\* errors are its errors, whatever the mapper did to the bundle.
C9_ResolutionUnchanged ==
    (stage1.done /\ stage1.entry # 0) =>
        /\ stage1.calls = 1
        /\ stage1.steps[1].step = "original"
        /\ \A i \in 2..Len(stage1.steps) : stage1.steps[i].step # "original"
        /\ stage1.raised = stage1.solved.raised
        /\ stage1.solved.raised # "none" => stage1.reports = << >>
        /\ stage1.solved.raised = "none" =>
              /\ stage1.result.values.items = stage1.solved.values.items
              /\ stage1.result.errors = stage1.solved.errors
              /\ stage1.result.shape = stage1.solved.shape

C9_Witness ==
    /\ stage1.done
    /\ stage1.mapper = "add"
    /\ Len(stage1.reports) = 1
    /\ stage1.reports[1].call = "log"
    /\ "extra" \in DOMAIN stage1.reports[1].attributes["values"]
    /\ stage1.result.values.cls = "_InstrumentedValues"

(***************************************************************************)
(* The endpoint-invocation stage.                                          *)
(***************************************************************************)
EventsOf(kind, k) ==
    {i \in 1..Len(stage2.events) :
        stage2.events[i].event = kind /\ stage2.events[i].layer = k}

C11_AsStated ==
    /\ stage1.done =>
          \A i \in 1..Len(stage1.layers) :
              LET L == stage1.layers[i]
              IN  ~L.instrumenting =>
                     /\ L.returned = L.given
                     /\ \A j \in ReportsOf(L.layer) : stage1.reports[j].call # "log"
    /\ stage2.done =>
          \A k \in 1..Len(inflight.flags) :
              ~inflight.flags[k] => EventsOf("open", k) = {}

(***************************************************************************)
(* Activations one inside another (SpecAsync, SpecFastAPI).                *)
(***************************************************************************)
AllExited == \A i \in 1..Len(monitors) : monitors[i].handle # "open"

\* C14 as stated: once every handle of the latency monitor has been exited,
\* in whatever order, Handle._run is the host's never-patched function: no
\* wrapper is installed and a callback run sends no report.
C14_AsStated ==
    (monitors # << >> /\ AllExited) =>
        /\ Handle_run = 0
        /\ Chain(Handle_run) = << >>
        /\ run.ran => run.reports = << >>

\* The sequence <<n, n-1, ..., 1>>.
Downto(n) == [i \in 1..n |-> n + 1 - i]

\* C15 as stated: the two stages are patched at most once, so neither chain
\* of wrappers is deeper than one, and the activations share one flag.
C15_AsStated ==
    /\ Len(SolveChain(solve_dependencies)) <= 1
    /\ Len(RunChain(run_endpoint_function)) <= 1
    /\ \A j, k \in 1..Len(activations) :
          activations[j].instrumenting = activations[k].instrumenting

\* C15: every activation patches both stages again, around whatever is
\* installed, and no exit of a handle removes a wrapper: after n activations
\* each chain holds the n wrappers, the latest outermost, whatever their
\* flags are.
C15_EveryActivationPatches ==
    /\ SolveChain(solve_dependencies) = Downto(Len(activations))
    /\ RunChain(run_endpoint_function) = Downto(Len(activations))
    /\ stage1.done => Len(stage1.layers) \in {0, Len(activations)}

C15_Witness ==
    /\ Len(activations) = 2
    /\ activations[1].app = activations[2].app
    /\ ~activations[1].instrumenting
    /\ ~activations[2].instrumenting
    /\ SolveChain(solve_dependencies) = <<2, 1>>
    /\ stage1.done
    /\ Len(stage1.layers) = 2

(***************************************************************************)
(* The attributes of the dependency-resolution report (SpecFastAPI).       *)
(***************************************************************************)
\* The positions in stage1.steps of the steps called name of activation k.
StepsOf(name, k) ==
    {i \in 1..Len(stage1.steps) :
        stage1.steps[i].step = name /\ stage1.steps[i].layer = k}

RouteKeys == {"http.route", "fastapi.route.name", "fastapi.route.operation_id"}

\* C16: the bundle handed to the mapper has the keys values and errors and no
\* other; the method and the route attributes are assigned after the mapper
\* has returned and before the report is sent, so in the report they are the
\* request's even where the mapper set the key; the method is there for an
\* HTTP request only (or where the mapper set it), the route path and name
\* for a matched route only, the operation id for an APIRoute only.
C16_InjectedAfterMapper ==
    stage1.done =>
        /\ \A i \in 1..Len(stage1.steps) :
              stage1.steps[i].step = "mapper" =>
                  stage1.steps[i].keys = {"values", "errors"}
        /\ \A j \in LogReports :
              LET a == stage1.reports[j].attributes
                  k == stage1.reports[j].sink
                  request == stage1.request
                  route == request.route
              IN  /\ \A mp \in StepsOf("mapper", k), ij \in StepsOf("inject", k),
                        lg \in StepsOf("log", k) : mp < ij /\ ij < lg
                  /\ StepsOf("inject", k) # {}
                  /\ IF request.cls = "Request"
                     THEN /\ "http.method" \in DOMAIN a
                          /\ a["http.method"] = request.method
                     ELSE "http.method" \in DOMAIN a =>
                              /\ stage1.mapper = "add"
                              /\ a["http.method"] = "MAPPER"
                  /\ IF route.cls # "None"
                     THEN /\ {"http.route", "fastapi.route.name"} \subseteq DOMAIN a
                          /\ a["http.route"] = route.path
                          /\ a["fastapi.route.name"] = route.name
                          /\ "fastapi.route.operation_id" \in DOMAIN a
                                 <=> route.cls = "APIRoute"
                          /\ route.cls = "APIRoute" =>
                                 a["fastapi.route.operation_id"] = route.operation_id
                     ELSE DOMAIN a \cap RouteKeys = {}

\* The mapper set http.method itself and the report of an HTTP request shows
\* the request's method.
C16_Witness ==
    /\ stage1.done
    /\ stage1.mapper = "add"
    /\ stage1.request.cls = "Request"
    /\ stage1.request.route = NoRoute
    /\ Cardinality(LogReports) = 1
    /\ \A j \in LogReports :
          /\ stage1.reports[j].attributes["http.method"] = "GET"
          /\ "extra" \in DOMAIN stage1.reports[j].attributes["values"]
          /\ DOMAIN stage1.reports[j].attributes \cap RouteKeys = {}

(***************************************************************************)
(* The two stages of one request (SpecFastAPI).                            *)
(***************************************************************************)
\* The request now past stage two met one activation, at both stages.
SingleActivation == stage2.done /\ Len(activations) = 1 /\ Len(inflight.flags) = 1

\* Flag at stage one, app and URL of the request in flight, for activation k.
FlagAppUrlAtStageOne(k) ==
    /\ inflight.flags[k]
    /\ inflight.request.app = activations[k].app
    /\ inflight.request.url \notin excluded_urls_list

TwoApps(a, b, app) ==
    /\ Len(activations) = 2
    /\ {a, b} = {1, 2}
    /\ activations[a].app = app
    /\ activations[b].app # app

\* The request of stage one is an HTTP request to a's app that a's activation,
\* enabled, instruments.
InstrumentedHTTP(a) ==
    /\ stage1.done
    /\ stage1.request.cls = "Request"
    /\ stage1.request.url \notin excluded_urls_list
    /\ Len(stage1.layers) = 2
    /\ stage1.layers[a].layer = a
    /\ stage1.layers[a].instrumenting

\* The same of the request in flight, at stage two.
InstrumentedHTTPInvoked(a) ==
    /\ stage2.done
    /\ inflight.request.cls = "Request"
    /\ inflight.request.url \notin excluded_urls_list
    /\ Len(inflight.flags) = 2
    /\ inflight.flags[a]

OpenMonitors == {i \in 1..Len(monitors) : monitors[i].handle = "open"}

\* Every handle exited so far was exited before the handles of the monitors
\* activated earlier and still open.
ExitsInReverseOrder == \A i \in 1..Len(monitors) : monitors[i].exit_in_order

\* The members of a set of numbers, greatest first.
RECURSIVE Descending(_)
Descending(S) ==
    IF S = {} THEN << >>
    ELSE LET m == CHOOSE x \in S : \A y \in S : y <= x
         IN  <<m>> \o Descending(S \ {m})

\* C20: while the handles are exited in reverse order of activation, each
\* exit installs what was installed just before that monitor's activation,
\* so the entry point is the chain of exactly the monitors still open, the
\* latest outermost, and the host's function when none is open; an open
\* monitor still reports a slow callback, an exited one reports nothing.
C20_NestedExitsRestore ==
    ExitsInReverseOrder =>
        /\ Chain(Handle_run) = Descending(OpenMonitors)
        /\ lastExit # 0 => Handle_run = monitors[lastExit].original_run
        /\ OpenMonitors = {} => Handle_run = 0
        /\ run.ran =>
              /\ \A j \in 1..Len(run.reports) : run.reports[j].sink \in OpenMonitors
              /\ (run.raised = "none" /\ ~run.self.broken /\ ~run.sinkRaises) =>
                    \A i \in OpenMonitors :
                        run.d >= monitors[i].slow_duration =>
                            Cardinality({j \in 1..Len(run.reports) :
                                            run.reports[j].sink = i}) = 1

\* The inner handle was exited, the outer monitor wraps the host's function
\* and has reported a slow callback.
C20_Witness ==
    /\ Len(monitors) >= 2
    /\ ExitsInReverseOrder
    /\ lastExit = 2
    /\ OpenMonitors = {1}
    /\ Handle_run = 1
    /\ monitors[1].original_run = 0
    /\ run.ran
    /\ Len(run.reports) = 1
    /\ run.reports[1].sink = 1

(***************************************************************************)
(* Properties of _callback_attributes (SpecAttribution).                   *)
(***************************************************************************)
\* C12: for a bound method of a task the name is 'task {task_name}'.  If the
\* task's coroutine is suspended, function and file are those of its code
\* object and the line is the line the frame is suspended at.  If it has
\* finished, function and file are those of its code object and the result
\* holds no current line: a line, if the helper gives one, is the first line
\* of the code object.  The name ends in ' ({function})' exactly when a
\* function name was resolved.  If get_coro() is not a coroutine the result
\* is the name alone.
C12_TaskAttribution ==
    (attribution.done /\ callback.kind = "task") =>
        LET task == callback.task
            coro == task.coro
            code == coro.cr_code
            r == attribution.result
        IN  /\ ~attribution.raised
            /\ IF coro.type # "CoroutineType"
               THEN DOMAIN r = {"name"} /\ r["name"] = "task " \o task.name
               ELSE /\ r["code.filepath"] = code.co_filename
                    /\ "code.function" \in DOMAIN r <=> code.co_qualname # ""
                    /\ IF code.co_qualname # ""
                       THEN /\ r["code.function"] = code.co_qualname
                            /\ r["name"] = "task " \o task.name \o " ("
                                               \o code.co_qualname \o ")"
                       ELSE r["name"] = "task " \o task.name
                    /\ IF coro.cr_frame # NoFrame
                       THEN /\ "code.lineno" \in DOMAIN r
                            /\ r["code.lineno"] = coro.cr_frame.f_lineno
                       ELSE "code.lineno" \in DOMAIN r =>
                                /\ attribution.with_line
                                /\ r["code.lineno"] = code.co_firstlineno

\* A task suspended at line 12 of Worker.run.
C12_Witness ==
    /\ attribution.done
    /\ callback.kind = "task"
    /\ callback.task.coro.type = "CoroutineType"
    /\ callback.task.coro.cr_frame.f_lineno = 12
    /\ attribution.with_line
    /\ attribution.result["code.lineno"] = 12
    /\ attribution.result["name"] = "task poller (Worker.run)"
    /\ attribution.result["code.filepath"] = "app.py"

\* The callable at the end of the callback's __wrapped__ chain.
Innermost == callback.chain[Len(callback.chain)]

\* The function name of the source location of a callable's code object.
FunctionOf(obj) == IF obj.code # NoCode THEN obj.code.co_qualname ELSE ""

\* C13: for a plain callback the call raises nothing and the name is
\* 'callback {n}', n being the first non-empty of __qualname__, __name__ and
\* the function name of the code object, and otherwise the safe string
\* representation, which is not empty.
C13_PlainCallbackName ==
    (attribution.done /\ callback.kind = "plain") =>
        LET obj == Innermost
            n == IF obj.qualname # "" THEN obj.qualname
                 ELSE IF obj.name # "" THEN obj.name
                 ELSE IF FunctionOf(obj) # "" THEN FunctionOf(obj)
                 ELSE IF obj.repr # "raises" THEN obj.repr
                 ELSE "<unknown (repr failed)>"
        IN  /\ ~attribution.raised
            /\ n # ""
            /\ attribution.result["name"] = "callback " \o n
            /\ attribution.result["name"] # "callback "

\* A callable with no identifier at all, whose repr raises.
C13_Witness ==
    /\ attribution.done
    /\ callback.kind = "plain"
    /\ Len(callback.chain) = 1
    /\ Innermost.qualname = ""
    /\ Innermost.name = ""
    /\ FunctionOf(Innermost) = ""
    /\ Innermost.repr = "raises"
    /\ ~attribution.raised
    /\ attribution.result["name"] = "callback <unknown (repr failed)>"

\* C17 as stated: one layer of wrapping is taken off; name and source
\* location are those of the object one layer below the callback.
C17_AsStated ==
    (attribution.done /\ callback.kind = "plain" /\ Len(callback.chain) > 1) =>
        LET obj == callback.chain[2]
        IN  /\ obj.qualname # "" => attribution.result["name"] = "callback " \o obj.qualname
            /\ obj.code # NoCode =>
                   attribution.result["code.filepath"] = obj.code.co_filename

\* C17: every layer of wrapping is taken off; name and source location are
\* those of the callable at the end of the __wrapped__ chain, however many
\* wrappers are around it.
C17_UnwrapsToInnermost ==
    (attribution.done /\ callback.kind = "plain" /\ Len(callback.chain) > 1) =>
        LET obj == Innermost
            r == attribution.result
        IN  /\ obj.qualname # "" => r["name"] = "callback " \o obj.qualname
            /\ r["name"] # "callback " \o Wrapper.qualname
            /\ IF obj.code # NoCode
               THEN /\ r["code.filepath"] = obj.code.co_filename
                    /\ CodeFunction(r) = obj.code.co_qualname
               ELSE DOMAIN r = {"name"}

\* Two wrappers around a method with a code object.
C17_Witness ==
    /\ attribution.done
    /\ callback.kind = "plain"
    /\ Len(callback.chain) = 3
    /\ callback.chain[2] = Wrapper
    /\ attribution.result["name"] = "callback Handler.on_done"
    /\ "code.filepath" \in DOMAIN attribution.result
    /\ attribution.result["code.filepath"] = "handlers.py"

====
